---- MODULE Spec2Model ----
(***************************************************************************)
(* A model of the WebSocket message codec of websocket-rawl                *)
(* (websocket-codec/src/message.rs): Message and its constructors, the     *)
(* incremental fragment-aware Decoder of MessageCodec and its Encoder;     *)
(* and of its client (src/client.rs, src/ssl.rs): ClientBuilder, the       *)
(* handshake request and the change from UpgradeCodec to MessageCodec.     *)
(* Bytes are the integers 0..255 and buffers are sequences of bytes.       *)
(* FrameHeader, Mask, Opcode and UpgradeCodec live in files of the crate   *)
(* that are not part of the sources at hand; they follow sections 3, 4.1,  *)
(* 4.2 and 4.5 of the specification.                                       *)
(***************************************************************************)
EXTENDS Integers, Sequences, FiniteSets, TLC

VARIABLES
    interrupted_message,  \* MessageCodec.interrupted_message
    use_mask,             \* MessageCodec.use_mask
    src,                  \* the read buffer handed to decode
    dst,                  \* the write buffer handed to encode
    wire,                 \* bytes the peer has sent and the transport has not read yet
    sent,                 \* history: the frames the peer has sent, in order
    encoded,              \* history: the messages given to encode, with the mask drawn
    out,                  \* history: every result of decode other than Ok(None)
    last,                 \* the last operation and what it returned
    call,                 \* the last call of a constructor of Message and its result
    builder,              \* the ClientBuilder: its url, async_connector and headers
    stream,               \* the stream of the connection and what was written to it
    framed,               \* the codec of the Framed that holds the stream
    future,               \* the connect method that was called and the wait it is at
    usize_bits,           \* the width of usize on the host the code is built for
    overflow_checks       \* whether the build checks integer arithmetic for overflow

vars == <<interrupted_message, use_mask, src, dst, wire, sent, encoded, out, last, call,
          builder, stream, framed, future, usize_bits, overflow_checks>>

\* the build of the code
build_vars == <<usize_bits, overflow_checks>>

\* the client and its connection
client_vars == <<builder, stream, framed, future>>

----------------------------------------------------------------------------
(* Bounds of the model *)

\* the peer sends at most this many bytes in short frames
MaxBytes == 8
\* the peer sends at most this many bytes when it sends a long control frame
MaxLongBytes == 134
\* of which at most this many in short frames
MaxContextBytes == 4
\* at most this many messages are encoded
MaxEncodes == 2
\* the server sends at most this many bytes in frames after its response
MaxConnectBytes == 5
\* the peer sends at most this many bytes of the payload of a huge frame
MaxHugePayload == 1
\* at most this many headers are added to a ClientBuilder
MaxHeaders == 1

----------------------------------------------------------------------------
(* Bytes *)

RECURSIVE BitXor(_, _)
BitXor(a, b) ==
    IF a = 0 THEN b
    ELSE IF b = 0 THEN a
    ELSE (((a % 2) + (b % 2)) % 2) + 2 * BitXor(a \div 2, b \div 2)

\* the big-endian value of a byte string
RECURSIVE BEValue(_)
BEValue(bs) ==
    IF bs = <<>> THEN 0
    ELSE 256 * BEValue(SubSeq(bs, 1, Len(bs) - 1)) + bs[Len(bs)]

\* the n-byte big-endian form of v
RECURSIVE BEBytes(_, _)
BEBytes(v, n) ==
    IF n = 0 THEN <<>> ELSE Append(BEBytes(v \div 256, n - 1), v % 256)

Drop(s, n) == SubSeq(s, n + 1, Len(s))
Take(s, n) == SubSeq(s, 1, n)

\* a buffer of n bytes b
Fill(n, b) == [i \in 1..n |-> b]

None == [some |-> FALSE]
Some(x) == [some |-> TRUE, value |-> x]

----------------------------------------------------------------------------
(* str::from_utf8: the well-formed byte sequences of UTF-8 *)

IsCont(b) == b >= 128 /\ b <= 191

\* the length of the character a lead byte starts; 0 for a byte that starts none
CharLen(b) ==
    IF b <= 127 THEN 1
    ELSE IF b >= 194 /\ b <= 223 THEN 2
    ELSE IF b >= 224 /\ b <= 239 THEN 3
    ELSE IF b >= 240 /\ b <= 244 THEN 4
    ELSE 0

\* the second byte a lead byte allows (no overlong form, no surrogate,
\* nothing above U+10FFFF)
SecondOk(b, c) ==
    IF b = 224 THEN c >= 160 /\ c <= 191
    ELSE IF b = 237 THEN c >= 128 /\ c <= 159
    ELSE IF b = 240 THEN c >= 144 /\ c <= 191
    ELSE IF b = 244 THEN c >= 128 /\ c <= 143
    ELSE IsCont(c)

\* every byte that is no continuation byte starts a character that is whole
\* and is followed by the start of the next, and the first byte is one of them
from_utf8(s) ==
    /\ Len(s) > 0 => ~IsCont(s[1])
    /\ \A i \in 1..Len(s) :
           IsCont(s[i]) \/
               LET n == CharLen(s[i])
               IN  /\ n > 0
                   /\ i + n - 1 <= Len(s)
                   /\ \A j \in (i + 1)..(i + n - 1) : IsCont(s[j])
                   /\ n > 1 => SecondOk(s[i], s[i + 1])
                   /\ i + n <= Len(s) => ~IsCont(s[i + n])

\* str::is_char_boundary: index i (0-based) of the string with bytes s
is_char_boundary(s, i) ==
    i = 0 \/ i = Len(s) \/ (i < Len(s) /\ ~IsCont(s[i + 1]))

----------------------------------------------------------------------------
(* Opcode *)

Opcodes == {"Text", "Binary", "Close", "Ping", "Pong"}

OpcodeToU8(op) ==
    CASE op = "Text" -> 1
      [] op = "Binary" -> 2
      [] op = "Close" -> 8
      [] op = "Ping" -> 9
      [] op = "Pong" -> 10

\* Opcode::try_from: None for a value that is no opcode
OpcodeTryFrom(n) ==
    IF \E op \in Opcodes : OpcodeToU8(op) = n
    THEN Some(CHOOSE op \in Opcodes : OpcodeToU8(op) = n)
    ELSE None

is_control(op) == OpcodeToU8(op) >= 8

is_text(op) == op = "Text"

----------------------------------------------------------------------------
(* Mask *)

mask_slice(buf, mask) ==
    [i \in 1..Len(buf) |-> BitXor(buf[i], mask[((i - 1) % 4) + 1])]

mask_slice_copy(data, mask) ==
    [i \in 1..Len(data) |-> BitXor(data[i], mask[((i - 1) % 4) + 1])]

\* the keys Mask::new can draw (a sample of the 2^32 keys)
Masks == {<<0, 0, 0, 0>>, <<55, 250, 33, 61>>}

----------------------------------------------------------------------------
(* FrameHeader *)

\* FrameHeader::write_to_bytes: the shortest of the 7, 16 and 64 bit length forms
write_to_bytes(header) ==
    LET b0 == (IF header.fin THEN 128 ELSE 0) + 16 * header.rsv + header.opcode
        mbit == IF header.mask.some THEN 128 ELSE 0
        n == header.data_len
        len == IF n <= 125 THEN <<mbit + n>>
               ELSE IF n <= 65535 THEN <<mbit + 126>> \o BEBytes(n, 2)
               ELSE <<mbit + 127>> \o BEBytes(n, 8)
        key == IF header.mask.some THEN header.mask.value ELSE <<>>
    IN  <<b0>> \o len \o key

\* FrameHeader::parse_slice: Some((header, header_len)), or None when the
\* buffer does not hold the whole header. data_len is a u64: a length of
\* 2^24 or more is wide and is kept as its eight bytes, big-endian
parse_slice(buf) ==
    IF Len(buf) < 2 THEN None
    ELSE LET b0 == buf[1]
             b1 == buf[2]
             L == b1 % 128
             masked == b1 >= 128
             ext == IF L = 126 THEN 2 ELSE IF L = 127 THEN 8 ELSE 0
             header_len == 2 + ext + (IF masked THEN 4 ELSE 0)
             len_bytes == SubSeq(buf, 3, 2 + ext)
             wide == ext = 8 /\ \E i \in 1..5 : len_bytes[i] # 0
         IN  IF Len(buf) < header_len THEN None
             ELSE Some([header |->
                          [fin |-> b0 >= 128,
                           rsv |-> (b0 \div 16) % 8,
                           opcode |-> b0 % 16,
                           mask |-> IF masked
                                    THEN Some(SubSeq(buf, 3 + ext, 6 + ext))
                                    ELSE None,
                           data_len |-> IF ext = 0 THEN L
                                        ELSE IF wide THEN len_bytes
                                        ELSE BEValue(len_bytes),
                           wide |-> wide],
                        header_len |-> header_len])

----------------------------------------------------------------------------
(* Message *)

Msg(opcode, data) == [opcode |-> opcode, data |-> data]

Ok(v) == [ok |-> TRUE, value |-> v]
Err(e) == [ok |-> FALSE, error |-> e]

\* a slip: a Close payload of one byte is taken
Message_new_any_close(opcode, data) ==
    IF opcode = "Close"
    THEN IF Len(data) <= 1 THEN Ok(Msg(opcode, data))
         ELSE IF from_utf8(Drop(data, 2)) THEN Ok(Msg(opcode, data))
         ELSE Err("InvalidUtf8")
    ELSE IF opcode = "Text"
    THEN IF from_utf8(data) THEN Ok(Msg(opcode, data)) ELSE Err("InvalidUtf8")
    ELSE Ok(Msg(opcode, data))

\* Message::new: Close data is empty or a two-byte code followed by UTF-8
\* text, Text data is UTF-8 text, any other data is taken as it is
Message_new(opcode, data) ==
    IF opcode = "Close"
    THEN IF Len(data) = 0 THEN Ok(Msg(opcode, data))
         ELSE IF Len(data) = 1 THEN Err("InvalidClosePayload")
         ELSE IF from_utf8(Drop(data, 2)) THEN Ok(Msg(opcode, data))
         ELSE Err("InvalidUtf8")
    ELSE IF opcode = "Text"
    THEN IF from_utf8(data) THEN Ok(Msg(opcode, data)) ELSE Err("InvalidUtf8")
    ELSE Ok(Msg(opcode, data))

\* Message::text, of the bytes of a String
text(data) == Msg("Text", data)

binary(data) == Msg("Binary", data)

close == Msg("Close", <<>>)

\* truncate_floor_char_boundary: the length the string is cut to
RECURSIVE floor_char_boundary(_, _)
floor_char_boundary(s, len) ==
    IF is_char_boundary(s, len) THEN len ELSE floor_char_boundary(s, len - 1)

\* a slip: the string is cut at the limit, inside a character or not
truncate_at_limit(s, new_len) ==
    IF Len(s) > new_len THEN new_len ELSE Len(s)

truncate_floor_char_boundary(s, new_len) ==
    IF Len(s) > new_len THEN floor_char_boundary(s, new_len) ELSE Len(s)

\* the longest reason that fits a control frame beside the two-byte code
MaxReasonLen == 123

\* Message::close_with_reason, of a 16-bit code and the bytes of a String
close_with_reason(code, reason) ==
    LET reason_len == truncate_floor_char_boundary(reason, MaxReasonLen)
    IN  Msg("Close", BEBytes(code, 2) \o Take(reason, reason_len))

ping(data) == Msg("Ping", data)

pong(data) == Msg("Pong", data)

\* Message::header: encode never fragments and sets no reserved bit
header_fin == TRUE

header(item, mask) ==
    [fin |-> header_fin,
     rsv |-> 0,
     opcode |-> OpcodeToU8(item.opcode),
     mask |-> mask,
     data_len |-> Len(item.data)]

\* Message::as_close: Some((code, reason)) of a Close message that has a code
as_close(item) ==
    IF item.opcode = "Close" /\ Len(item.data) >= 2
    THEN Some([code |-> BEValue(Take(item.data, 2)), reason |-> Drop(item.data, 2)])
    ELSE None

----------------------------------------------------------------------------
(* MessageCodec *)

\* MessageCodec::with_masked_encode
with_masked_encode(m) == [use_mask |-> m, interrupted_message |-> None]

\* MessageCodec::client
client == with_masked_encode(TRUE)

\* the results of decode
OkNone == [kind |-> "None"]
OkSome(m) == [kind |-> "Some", msg |-> m]
Error(e) == [kind |-> "Err", error |-> e]

\* what decode leaves: its result, the codec's interrupted_message, the buffer
\* and the additional capacity it has reserved in the buffer
Outcome(result, im, buf, reserved) ==
    [result |-> result, interrupted_message |-> im, src |-> buf, reserved |-> reserved]

\* the capacity reserved for a frame header
HeaderReserve == 512
\* the most that is reserved for the data of one frame in one call
MaxDataReserve == 1073741824
\* the payload length from which a control frame is too long
ControlLimit == 126

Min(a, b) == IF a <= b THEN a ELSE b

\* a slip: the state taken out of the codec is not put back
restore_forgotten(state) == None

\* self.interrupted_message = state, before decode returns Ok(None)
restore(state) == state

\* a slip: the pending message is not put back when a control frame comes
stash_dropped(partial) == None

\* self.interrupted_message = Some((partial_opcode, partial_data)), before a
\* control frame is returned between two fragments
stash(partial) == Some(partial)

\* opcode.is_control() && data_len >= 126
control_too_long(opcode, data_len) == is_control(opcode) /\ data_len >= ControlLimit

\* a slip: any final frame is taken for a control frame between two fragments
interleaved_any_final(fin, opcode) == fin

\* a slip: a control frame is taken whether it is final or not
interleaved_any_control(fin, opcode) == is_control(opcode)

\* fin && opcode.is_control(): a control frame between two fragments
interleaved_control(fin, opcode) == fin /\ is_control(opcode)

\* a slip: the payload of the fragment is not kept
extend_from_slice_lost(partial_data, data) == partial_data

\* a slip: the payload of the fragment is put before what was gathered
extend_from_slice_front(partial_data, data) == data \o partial_data

\* partial_data.extend_from_slice(&data)
extend_from_slice(partial_data, data) == partial_data \o data

\* a slip: the message is built from the wire's bytes without Message::new
finish_unchecked(opcode, data, im, rest) == Outcome(OkSome(Msg(opcode, data)), im, rest, 0)

\* Ok(Some(Message::new(opcode, data.freeze())?))
finish(opcode, data, im, rest) ==
    LET m == Message_new(opcode, data)
    IN  IF m.ok THEN Outcome(OkSome(m.value), im, rest, 0)
        ELSE Outcome(Error(m.error), im, rest, 0)

\* the sum of two numbers of as many bytes, big-endian, and its carry
RECURSIVE wide_add(_, _, _)
wide_add(a, b, carry) ==
    IF a = <<>> THEN [bytes |-> <<>>, carry |-> carry]
    ELSE LET n == Len(a)
             sum == a[n] + b[n] + carry
             high == wide_add(Take(a, n - 1), Take(b, n - 1), sum \div 256)
         IN  [bytes |-> Append(high.bytes, sum % 256), carry |-> high.carry]

\* a < b, of two numbers of as many bytes, big-endian
wide_less(a, b) ==
    \E i \in 1..Len(a) : a[i] < b[i] /\ \A j \in 1..(i - 1) : a[j] = b[j]

\* usize::try_from of a wide u64: the bytes of the usize
usize_try_from(len_bytes) ==
    LET cut == 8 - (usize_bits \div 8)
    IN  IF \A i \in 1..cut : len_bytes[i] = 0
        THEN Ok(Drop(len_bytes, cut))
        ELSE Err("FrameTooLong")

\* what decode finds of the frame at the front of the buffer
Whole(frame_len) == [kind |-> "Whole", frame_len |-> frame_len]
NeedMore(additional) == [kind |-> "NeedMore", reserved |-> additional]
TooLong == [kind |-> "TooLong"]
Panic == [kind |-> "Panic"]

\* a slip: no room is reserved for the header of the next frame
data_reserve_bare(frame_len, over) ==
    IF over THEN MaxDataReserve ELSE Min(frame_len, MaxDataReserve)

\* frame_len.min(0x4000_0000) + 512, of a frame_len that is over 0x4000_0000
\* or is the number given
data_reserve(frame_len, over) ==
    (IF over THEN MaxDataReserve ELSE Min(frame_len, MaxDataReserve)) + HeaderReserve

\* from usize::try_from to the test of the frame against the buffer: the
\* frame is whole in the buffer, or more bytes are needed, or the frame is
\* too long. header_len + data_len overflows usize for the longest lengths:
\* a build with overflow checks panics there, and a build without them goes
\* on with the sum wrapped, which is less than header_len
frame_fit(hd, header_len, remaining) ==
    IF ~hd.wide
    THEN LET frame_len == header_len + hd.data_len
         IN  IF frame_len > remaining
             THEN NeedMore(data_reserve(frame_len, FALSE))
             ELSE Whole(frame_len)
    ELSE LET data_len == usize_try_from(hd.data_len)
         IN  IF ~data_len.ok THEN TooLong
             ELSE
             LET n == Len(data_len.value)
                 sum == wide_add(data_len.value, BEBytes(header_len, n), 0)
                 frame_len == sum.bytes
             IN  IF sum.carry # 0 /\ overflow_checks THEN Panic
                 ELSE IF ~wide_less(BEBytes(remaining, n), frame_len)
                 THEN Whole(BEValue(frame_len))
                 ELSE IF wide_add(frame_len, BEBytes(remaining, n), 0).carry # 0
                 THEN TooLong
                 ELSE IF wide_less(BEBytes(MaxDataReserve, n), frame_len)
                 THEN NeedMore(data_reserve(0, TRUE))
                 ELSE NeedMore(data_reserve(BEValue(frame_len), FALSE))

\* the loop of Decoder::decode, from the pending state and the buffer
RECURSIVE decode_loop(_, _)
decode_loop(state, buf) ==
    LET parsed == parse_slice(buf)
    IN  IF ~parsed.some
        THEN Outcome(OkNone, restore(state), buf, HeaderReserve)
        ELSE
        LET hd == parsed.value.header
            header_len == parsed.value.header_len
            fit == frame_fit(hd, header_len, Len(buf))
            frame_len == fit.frame_len
            data_len == frame_len - header_len
        IN  IF fit.kind = "TooLong"
            THEN Outcome(Error("FrameTooLong"), None, buf, 0)
            ELSE IF fit.kind = "Panic"
            THEN Outcome(Panic, None, buf, 0)
            ELSE IF fit.kind = "NeedMore"
            THEN Outcome(OkNone, restore(state), buf, fit.reserved)
            ELSE
            LET rest == Drop(buf, frame_len)
            IN  \* data.advance(header_len) panics on a frame that was split off
                \* with a wrapped frame_len: the frame is out of the buffer
                IF header_len > frame_len THEN Outcome(Panic, None, rest, 0)
                ELSE
            LET raw == SubSeq(buf, header_len + 1, frame_len)
                data == IF hd.mask.some THEN mask_slice(raw, hd.mask.value) ELSE raw
                fin == hd.fin
                opcode == IF hd.opcode = 0 THEN None ELSE OpcodeTryFrom(hd.opcode)
                Fail(e) == Outcome(Error(e), None, rest, 0)
            IN  IF hd.rsv # 0 THEN Fail("ReservedBitsSet")
                ELSE IF hd.opcode # 0 /\ ~opcode.some THEN Fail("BadOpcode")
                ELSE IF opcode.some /\ control_too_long(opcode.value, data_len)
                     THEN Fail("ControlTooLong")
                ELSE IF state.some
                THEN IF opcode.some
                     THEN IF interleaved_control(fin, opcode.value)
                          THEN finish(opcode.value, data, stash(state.value), rest)
                          ELSE Fail("NestedDataFrame")
                     ELSE LET partial_data == extend_from_slice(state.value.data, data)
                          IN  IF fin
                              THEN finish(state.value.opcode, partial_data, None, rest)
                              ELSE decode_loop(
                                       Some(Msg(state.value.opcode, partial_data)), rest)
                ELSE IF opcode.some
                THEN IF fin THEN finish(opcode.value, data, None, rest)
                     ELSE IF is_control(opcode.value) THEN Fail("ControlFragmented")
                     ELSE decode_loop(Some(Msg(opcode.value, data)), rest)
                ELSE Fail("DanglingContinuation")

\* Decoder::decode: the state is taken out of the codec, then the loop runs
decode(im, buf) == decode_loop(im, buf)

\* a slip: the payload is copied as it is although a mask is in the header
encode_payload_plain(item, mask) == item.data

\* the payload as encode writes it
encode_payload(item, mask) ==
    IF mask.some THEN mask_slice_copy(item.data, mask.value) ELSE item.data

\* Encoder::encode with the mask drawn (None when use_mask is false): the
\* result and the buffer
encode(item, buf, mask) ==
    [result |-> Ok(<<>>),
     dst |-> buf \o write_to_bytes(header(item, mask)) \o encode_payload(item, mask)]

----------------------------------------------------------------------------
(* The peer and the transport *)

Frame(fin, rsv, opcode, mask, payload) ==
    [fin |-> fin, rsv |-> rsv, opcode |-> opcode, mask |-> mask, payload |-> payload]

\* the bytes of a frame on the wire
WireBytes(f) ==
    write_to_bytes([fin |-> f.fin, rsv |-> f.rsv, opcode |-> f.opcode,
                    mask |-> f.mask, data_len |-> Len(f.payload)])
    \o (IF f.mask.some THEN mask_slice(f.payload, f.mask.value) ELSE f.payload)

RECURSIVE StreamBytes(_)
StreamBytes(frames) ==
    IF frames = <<>> THEN <<>>
    ELSE StreamBytes(Take(frames, Len(frames) - 1)) \o WireBytes(frames[Len(frames)])

\* the short frames the peer sends: data frames whole and fragmented (the
\* bytes 195, 169 are one two-byte character), continuations, control frames
\* with sound and unsound payloads, and frames no codec accepts
ShortFrames ==
    {Frame(TRUE, 0, 1, None, <<65>>),
     Frame(FALSE, 0, 1, None, <<195>>),
     Frame(TRUE, 0, 1, None, <<195>>),
     Frame(FALSE, 0, 2, None, <<>>),
     Frame(TRUE, 0, 2, None, <<1>>),
     Frame(TRUE, 0, 0, None, <<169>>),
     Frame(FALSE, 0, 0, None, <<169>>),
     Frame(TRUE, 0, 0, None, <<>>),
     Frame(TRUE, 0, 9, None, <<>>),
     Frame(FALSE, 0, 9, None, <<>>),
     Frame(TRUE, 0, 10, None, <<65>>),
     Frame(TRUE, 0, 8, None, <<>>),
     Frame(TRUE, 0, 8, None, <<65>>),
     Frame(TRUE, 0, 8, None, <<3, 232>>),
     Frame(TRUE, 0, 8, None, <<3, 232, 195>>),
     Frame(TRUE, 4, 1, None, <<65>>),
     Frame(TRUE, 0, 3, None, <<65>>),
     Frame(TRUE, 0, 1, Some(<<55, 250, 33, 61>>), <<65>>)}

\* the long control frames, at the limit of 125 bytes and past it
LongFrames ==
    {Frame(TRUE, 0, 9, None, Fill(125, 65)),
     Frame(TRUE, 0, 9, None, Fill(126, 65)),
     Frame(TRUE, 0, 8, None, <<3, 232>> \o Fill(124, 65)),
     Frame(TRUE, 4, 10, None, Fill(126, 65))}

\* the short frames sent around a long control frame
ContextFrames ==
    {Frame(FALSE, 0, 1, None, <<>>),
     Frame(TRUE, 0, 0, None, <<>>),
     Frame(TRUE, 0, 10, None, <<>>)}

RECURSIVE ContextLen(_)
ContextLen(frames) ==
    IF frames = <<>> THEN 0
    ELSE ContextLen(Take(frames, Len(frames) - 1))
         + (IF frames[Len(frames)] \in ContextFrames
            THEN Len(WireBytes(frames[Len(frames)])) ELSE 0)

\* the bytes the transport has read so far
Received == Take(StreamBytes(sent), Len(StreamBytes(sent)) - Len(wire))

NoResult == [kind |-> "-"]

Did(op, result, im0, src0, reserved) ==
    [op |-> op, result |-> result, im0 |-> im0, src0 |-> src0, reserved |-> reserved]

Idle(op) == Did(op, NoResult, None, <<>>, 0)

\* a call of a constructor: the function, its arguments and what it returned
Called(fn, args, result) == [fn |-> fn, args |-> args, result |-> result]

NoCall == Called("-", <<>>, NoResult)

\* a stream: what it is inside, the bytes of the request the client has
\* written to it so far, the response the server has written to it, and
\* whether the server has closed it
Stream(inner, request, response, closed) ==
    [inner |-> inner, request |-> request, response |-> response, closed |-> closed]

\* no stream is connected: the codec works on buffers alone
NoStream == Stream("-", "", <<>>, FALSE)

\* the future of a connect method: the method, and the wait it is at
Future(fn, at) == [fn |-> fn, at |-> at]

\* no connect method was called
NoFuture == Future("-", "-")

PeerSend(f, budget) ==
    /\ wire = <<>>
    /\ Len(StreamBytes(sent)) + Len(WireBytes(f)) <= budget
    /\ wire' = WireBytes(f)
    /\ sent' = Append(sent, f)
    /\ UNCHANGED <<interrupted_message, use_mask, src, dst, encoded, out, last, call, client_vars, build_vars>>

PeerSendShort == \E f \in ShortFrames : PeerSend(f, MaxBytes)

PeerSendLong ==
    \E f \in LongFrames \cup ContextFrames :
        /\ f \in ContextFrames =>
               ContextLen(sent) + Len(WireBytes(f)) <= MaxContextBytes
        /\ PeerSend(f, MaxLongBytes)

\* the transport appends the next n bytes to the read buffer
Recv ==
    \E n \in 1..Len(wire) :
        /\ src' = src \o Take(wire, n)
        /\ wire' = Drop(wire, n)
        /\ last' = Idle("recv")
        /\ UNCHANGED <<interrupted_message, use_mask, dst, sent, encoded, out, call, client_vars, build_vars>>

\* the lengths a peer advertises in the eight-byte form, around 2^24, 2^30,
\* 2^32 and 2^64 and at 2^63; two of them make header_len + data_len wrap to
\* zero on a host of 32 and of 64 bits
HugeLengths ==
    {<<0, 0, 0, 0, 0, 1, 0, 0>>,
     <<0, 0, 0, 0, 1, 0, 0, 0>>,
     <<0, 0, 0, 0, 63, 255, 255, 246>>,
     <<0, 0, 0, 0, 63, 255, 255, 247>>,
     <<0, 0, 0, 0, 64, 0, 0, 0>>,
     <<0, 0, 0, 0, 255, 255, 255, 240>>,
     <<0, 0, 0, 0, 255, 255, 255, 246>>,
     <<0, 0, 0, 0, 255, 255, 255, 255>>,
     <<0, 0, 0, 1, 0, 0, 0, 0>>,
     <<128, 0, 0, 0, 0, 0, 0, 0>>,
     <<255, 255, 255, 255, 255, 255, 255, 240>>,
     <<255, 255, 255, 255, 255, 255, 255, 246>>,
     <<255, 255, 255, 255, 255, 255, 255, 255>>}

\* the heads of the frames that advertise them: a final Binary frame, bare
\* or masked, a continuation and a Ping
HugeHeads ==
    {<<130, 127>> \o len : len \in HugeLengths}
    \cup {<<130, 255>> \o len \o <<55, 250, 33, 61>> : len \in HugeLengths}
    \cup {<<0, 127>> \o len : len \in HugeLengths}
    \cup {<<137, 127>> \o len : len \in HugeLengths}

\* the short frames sent before them
LeadFrames ==
    {Frame(FALSE, 0, 1, None, <<65>>),
     Frame(TRUE, 0, 9, None, <<>>),
     Frame(FALSE, 0, 2, None, Fill(200, 7))}

\* the peer sends a short frame first
PeerSendLead ==
    \E f \in LeadFrames :
        /\ wire = <<>> /\ sent = <<>>
        /\ wire' = WireBytes(f)
        /\ sent' = <<f>>
        /\ UNCHANGED <<interrupted_message, use_mask, src, dst, encoded, out, last,
                       call, client_vars, build_vars>>

\* the peer sends the head of a frame of a huge length and the first bytes
\* of its payload
PeerSendHuge ==
    \E head \in HugeHeads, n \in 0..MaxHugePayload :
        /\ wire = <<>>
        /\ \A i \in 1..Len(sent) : sent[i] \in LeadFrames
        /\ wire' = head \o Fill(n, 7)
        /\ sent' = Append(sent, [head |-> head, payload |-> Fill(n, 7)])
        /\ UNCHANGED <<interrupted_message, use_mask, src, dst, encoded, out, last,
                       call, client_vars, build_vars>>

\* one call of decode on the read buffer
Decode ==
    LET r == decode(interrupted_message, src)
    IN  /\ interrupted_message' = r.interrupted_message
        /\ src' = r.src
        /\ out' = IF r.result = OkNone THEN out ELSE Append(out, r.result)
        /\ last' = Did("decode", r.result, interrupted_message, src, r.reserved)
        /\ UNCHANGED <<use_mask, dst, wire, sent, encoded, call, client_vars, build_vars>>

----------------------------------------------------------------------------
(* The application that encodes *)

\* the messages the public constructors build
Built ==
    {text(<<>>), text(<<65>>), text(<<195, 169>>),
     binary(<<>>), binary(<<255, 0>>),
     close, close_with_reason(1000, <<98, 121, 101>>),
     ping(<<>>), ping(Fill(125, 65)), ping(Fill(126, 65)),
     pong(<<65>>), pong(Fill(126, 7))}
    \cup {Message_new(op, d).value :
            <<op, d>> \in {x \in Opcodes \X {<<>>, <<65>>, <<3, 232, 195, 169>>} :
                              Message_new(x[1], x[2]).ok}}

\* one call of encode on the write buffer; Mask::new draws the key
Encode ==
    \E item \in Built :
    \E mask \in IF use_mask THEN {Some(k) : k \in Masks} ELSE {None} :
        LET r == encode(item, dst, mask)
        IN  /\ Len(encoded) < MaxEncodes
            /\ last.op \in {"init", "encode"}
            /\ dst' = r.dst
            /\ encoded' = Append(encoded, [item |-> item, mask |-> mask, at |-> Len(dst)])
            /\ last' = Did("encode", IF r.result.ok THEN OkNone ELSE Error(r.result.error),
                           None, dst, 0)
            /\ UNCHANGED <<interrupted_message, use_mask, src, wire, sent, out, call, client_vars, build_vars>>

\* the bytes written are handed, as they are, to the decoder of a new codec
Loopback ==
    /\ last.op = "encode"
    /\ src' = dst
    /\ dst' = <<>>
    /\ interrupted_message' = with_masked_encode(use_mask).interrupted_message
    /\ last' = Idle("loopback")
    /\ UNCHANGED <<use_mask, wire, sent, encoded, out, call, client_vars, build_vars>>

----------------------------------------------------------------------------
(* The application that builds messages *)

\* the payloads given to Message::new: empty, one byte, text that is and is
\* not UTF-8, a close code with and without sound text, and payloads at the
\* limit of a control frame and past it
Payloads ==
    {<<>>, <<65>>, <<195>>, <<195, 169>>, <<65, 128>>,
     <<3, 232>>, <<3, 232, 98, 121, 101>>, <<3, 232, 195>>, <<255, 255, 195, 169>>,
     <<237, 160, 128>>, <<3, 232, 237, 160, 128>>,
     Fill(125, 65), Fill(126, 65), Fill(126, 200)}

\* the reasons given to close_with_reason, each the bytes of a String: short
\* ones, and ones around the limit of 123 bytes that end in characters of
\* one, two, three and four bytes
Reasons ==
    {<<>>, <<98, 121, 101>>, <<195, 169>>,
     Fill(123, 97), Fill(124, 97),
     Fill(121, 97) \o <<195, 169>>,
     Fill(122, 97) \o <<195, 169>>,
     Fill(123, 97) \o <<195, 169>>,
     Fill(121, 97) \o <<226, 130, 172>>,
     Fill(122, 97) \o <<226, 130, 172>>,
     Fill(120, 97) \o <<240, 159, 152, 128, 97>>,
     Fill(122, 97) \o <<240, 159, 152, 128>>}

\* the close codes, as 16-bit numbers
CloseCodes == {1000, 4999}

\* the application calls Message::new
New ==
    \E opcode \in Opcodes, data \in Payloads :
        /\ call = NoCall
        /\ call' = Called("new", <<opcode, data>>,
                          LET m == Message_new(opcode, data)
                          IN  IF m.ok THEN OkSome(m.value) ELSE Error(m.error))
        /\ UNCHANGED <<interrupted_message, use_mask, src, dst, wire, sent,
                       encoded, out, last, client_vars, build_vars>>

\* the application calls Message::close_with_reason
CloseWithReason ==
    \E code \in CloseCodes, reason \in Reasons :
        /\ call = NoCall
        /\ call' = Called("close_with_reason", <<code, reason>>,
                          OkSome(close_with_reason(code, reason)))
        /\ UNCHANGED <<interrupted_message, use_mask, src, dst, wire, sent,
                       encoded, out, last, client_vars, build_vars>>

\* the message that was built is given to encode, once
EncodeCalled ==
    \E mask \in IF use_mask THEN {Some(k) : k \in Masks} ELSE {None} :
        LET item == call.result.msg
            r == encode(item, dst, mask)
        IN  /\ call.result.kind = "Some"
            /\ encoded = <<>>
            /\ last.op = "init"
            /\ dst' = r.dst
            /\ encoded' = Append(encoded, [item |-> item, mask |-> mask, at |-> Len(dst)])
            /\ last' = Did("encode", IF r.result.ok THEN OkNone ELSE Error(r.result.error),
                           None, dst, 0)
            /\ UNCHANGED <<interrupted_message, use_mask, src, wire, sent, out, call, client_vars, build_vars>>

----------------------------------------------------------------------------
(* The client: ClientBuilder, the handshake and the change of codec *)

\* the port a scheme is known to use
known_default_port(scheme) ==
    IF scheme = "ws" THEN Some(80)
    ELSE IF scheme = "wss" THEN Some(443)
    ELSE None

\* Url::parse: a port that is the default of the scheme is not kept
Url_parse(scheme, host, port, path) ==
    [scheme |-> scheme,
     host |-> Some(host),
     port |-> IF port = known_default_port(scheme) THEN None ELSE port,
     path |-> path,
     query |-> None]

\* Url::port_or_known_default
port_or_known_default(url) ==
    IF url.port.some THEN url.port ELSE known_default_port(url.scheme)

Digits == <<"0", "1", "2", "3", "4", "5", "6", "7", "8", "9">>

\* a number as format! writes it
RECURSIVE Display(_)
Display(n) ==
    IF n < 10 THEN Digits[n + 1] ELSE Display(n \div 10) \o Digits[(n % 10) + 1]

\* the port build_request writes after the host
host_port(url) == port_or_known_default(url)

\* build_request: the lines of the extra headers, one after the other
RECURSIVE header_lines(_)
header_lines(headers) ==
    IF headers = <<>> THEN ""
    ELSE headers[1][1] \o ": " \o headers[1][2] \o "\r\n" \o header_lines(Tail(headers))

\* build_request: the text of the request
build_request(url, key, headers) ==
    LET port == host_port(url)
    IN  "GET " \o url.path
        \o (IF url.query.some THEN "?" \o url.query.value ELSE "")
        \o " HTTP/1.1\r\n"
        \o (IF url.host.some
            THEN "Host: " \o url.host.value
                 \o (IF port.some THEN ":" \o Display(port.value) ELSE "")
                 \o "\r\n"
            ELSE "")
        \o "Upgrade: websocket\r\n"
        \o "Connection: Upgrade\r\n"
        \o "Sec-WebSocket-Key: " \o key \o "\r\n"
        \o "Sec-WebSocket-Version: 13\r\n"
        \o header_lines(headers)
        \o "\r\n"

\* the key of the handshake, in base64 (make_key)
Key == "dGhlIHNhbXBsZSBub25jZQ=="

\* the URLs given to ClientBuilder::new, parsed
Urls ==
    {Url_parse(scheme, "example.com", port, "/chat") :
        scheme \in {"ws", "wss"}, port \in {None, Some(80), Some(443), Some(8080)}}

\* the headers given to add_header
Headers == {<<"Origin", "x">>}

\* the numbers of bytes the stream accepts in one write
WriteChunks == {50, 60}

\* ClientBuilder::from_url
from_url(url) == [url |-> url, async_connector |-> None, headers |-> <<>>]

\* AsyncConnector::wrap: what the stream is inside
wrap(connector) == IF connector = "Plain" THEN "Plain" ELSE "NativeTls"

\* the connector async_connect uses
connector_of(b) ==
    IF b.async_connector.some THEN b.async_connector.value
    ELSE IF b.url.scheme = "wss" THEN "NativeTls"
    ELSE "Plain"

\* ClientBuilder::set_async_connector: the connector replaces the one that
\* was set, which is returned
SetAsyncConnector ==
    \E connector \in {"Plain", "NativeTls"} :
        /\ future = NoFuture
        /\ builder' = Some([builder.value EXCEPT !.async_connector = Some(connector)])
        /\ call' = Called("set_async_connector", <<connector>>,
                          builder.value.async_connector)
        /\ UNCHANGED <<interrupted_message, use_mask, src, dst, wire, sent,
                       encoded, out, last, stream, framed, future, build_vars>>

\* ClientBuilder::add_header
AddHeader ==
    \E pair \in Headers :
        /\ future = NoFuture
        /\ Len(builder.value.headers) < MaxHeaders
        /\ builder' = Some([builder.value EXCEPT !.headers = Append(@, pair)])
        /\ UNCHANGED <<interrupted_message, use_mask, src, dst, wire, sent,
                       encoded, out, last, call, stream, framed, future, build_vars>>

\* a connect method returns Err: the builder and the stream it holds are dropped
ConnectFails(fn, e) ==
    /\ future' = Future(fn, "failed")
    /\ framed' = "failed"
    /\ builder' = None
    /\ last' = Did("connect", Error(e), None, src, 0)
    /\ UNCHANGED <<interrupted_message, use_mask, src, dst, wire, sent,
                   encoded, out, call, stream, build_vars>>

\* a connect method is called and runs to its first wait: the address is
\* resolved and TokioTcpStream::connect is awaited, or resolve fails
Resolve(fn) ==
    /\ future = NoFuture
    /\ \/ /\ future' = Future(fn, "connect")
          /\ UNCHANGED <<interrupted_message, use_mask, src, dst, wire, sent,
                         encoded, out, last, call, builder, stream, framed, build_vars>>
       \/ ConnectFails(fn, "resolve")

\* ClientBuilder::async_connect_insecure, to its first wait
AsyncConnectInsecure == Resolve("async_connect_insecure")

\* ClientBuilder::async_connect, to its first wait
AsyncConnect == Resolve("async_connect")

\* async_connect_on, to its first wait: the request is built and write_all
\* is awaited, with nothing written to the stream yet
ConnectOn(fn, inner) ==
    /\ stream' = Stream(inner, "", <<>>, FALSE)
    /\ future' = Future(fn, "write")
    /\ last' = Idle("connect")
    /\ UNCHANGED <<interrupted_message, use_mask, src, dst, wire, sent,
                   encoded, out, call, framed, build_vars>>

\* ClientBuilder::async_connect_on, called on a stream the caller has set up
AsyncConnectOn ==
    \E inner \in {"Plain", "NativeTls"} :
        /\ future = NoFuture
        /\ ConnectOn("async_connect_on", inner)
        /\ UNCHANGED builder

\* TokioTcpStream::connect is over. async_connect_insecure goes on to
\* async_connect_on with the TCP stream; async_connect takes the connector out
\* of the builder, or makes one for the scheme, which can fail, and wraps the
\* stream: Plain wraps it at once, NativeTls awaits the TLS handshake
TcpConnected ==
    /\ future.at = "connect"
    /\ \/ ConnectFails(future.fn, "connect")
       \/ /\ future.fn = "async_connect_insecure"
          /\ ConnectOn(future.fn, "Plain")
          /\ UNCHANGED builder
       \/ /\ future.fn = "async_connect"
          /\ ~builder.value.async_connector.some
          /\ builder.value.url.scheme = "wss"
          /\ ConnectFails(future.fn, "new_with_default_tls_config")
       \/ /\ future.fn = "async_connect"
          /\ builder' = Some([builder.value EXCEPT !.async_connector = None])
          /\ IF connector_of(builder.value) = "Plain"
             THEN ConnectOn(future.fn, wrap("Plain"))
             ELSE /\ future' = Future(future.fn, "wrap")
                  /\ UNCHANGED <<interrupted_message, use_mask, src, dst, wire, sent,
                                 encoded, out, last, call, stream, framed, build_vars>>

\* the TLS handshake of AsyncConnector::wrap is over: async_connect goes on to
\* async_connect_on with the wrapped stream, or fails
TlsWrapped ==
    /\ future.at = "wrap"
    /\ \/ /\ ConnectOn(future.fn, wrap("NativeTls"))
          /\ UNCHANGED builder
       \/ ConnectFails(future.fn, "wrap")

\* the request async_connect_on writes
Request == build_request(builder.value.url, Key, builder.value.headers)

\* write_all: the stream accepts the next bytes of the request, or the write
\* fails; when the whole request is written the stream is framed with the
\* UpgradeCodec and the response is awaited
Write ==
    /\ future.at = "write"
    /\ \/ \E chunk \in WriteChunks :
            LET at == Len(stream.request)
                n == Min(chunk, Len(Request) - at)
                written == stream.request \o SubSeq(Request, at + 1, at + n)
            IN  /\ stream' = [stream EXCEPT !.request = written]
                /\ IF written = Request
                   THEN /\ future' = Future(future.fn, "response")
                        /\ framed' = "UpgradeCodec"
                   ELSE UNCHANGED <<future, framed>>
                /\ last' = Idle("write")
                /\ UNCHANGED <<interrupted_message, use_mask, src, dst, wire, sent,
                               encoded, out, call, builder, build_vars>>
       \/ ConnectFails(future.fn, "write_all")

\* the end of the head of an HTTP response: an empty line
HeadEnd == <<13, 10, 13, 10>>

\* the responses of the server, cut down to the first digit of the status
\* (101 and 400) and the empty line that ends the head; and one whose head
\* does not end
AcceptedResponse == <<49>> \o HeadEnd
Responses == {AcceptedResponse, <<52>> \o HeadEnd, <<49, 13, 10>>}

\* UpgradeCodec's decode: Ok(None) while the head of the response is not
\* whole; then the head is taken out of the buffer and checked
upgrade_decode(buf) ==
    LET ends == {i \in 1..(Len(buf) - 3) : SubSeq(buf, i, i + 3) = HeadEnd}
    IN  IF ends = {}
        THEN [result |-> OkNone, src |-> buf]
        ELSE LET e == (CHOOSE i \in ends : \A j \in ends : i <= j) + 3
             IN  [result |-> IF Take(buf, e) = AcceptedResponse
                             THEN OkSome("upgraded")
                             ELSE Error("HandshakeFailed"),
                  src |-> Drop(buf, e)]

\* the parts of a Framed
Parts(io, codec, read_buf, write_buf) ==
    [io |-> io, codec |-> codec, read_buf |-> read_buf, write_buf |-> write_buf]

\* Framed::new(io, codec): the buffers are empty
Framed_new(io, codec) == Parts(io, codec, <<>>, <<>>)

\* a slip: the buffers of the Framed that is replaced are not carried over
replace_codec_new(parts1, codec) == Framed_new(parts1.io, codec)

\* replace_codec
replace_codec(parts1, codec) ==
    LET parts2 == Framed_new(parts1.io, codec)
    IN  [parts2 EXCEPT !.read_buf = parts1.read_buf, !.write_buf = parts1.write_buf]

\* the connection is open: the stream is set up, the client has not dropped
\* it and the server has not closed it
Open == stream.inner # "-" /\ future.at # "failed" /\ ~stream.closed

\* the server answers the request
ServerRespond ==
    \E response \in Responses :
        /\ Open
        /\ stream.response = <<>>
        /\ stream' = [stream EXCEPT !.response = response]
        /\ wire' = wire \o response
        /\ UNCHANGED <<interrupted_message, use_mask, src, dst, sent, encoded, out,
                       last, call, builder, framed, future, build_vars>>

\* the frames the server sends once it has answered
ConnectFrames ==
    {Frame(TRUE, 0, 1, None, <<65>>),
     Frame(FALSE, 0, 1, None, <<195>>),
     Frame(TRUE, 0, 0, None, <<169>>),
     Frame(TRUE, 0, 9, None, <<>>)}

\* the server sends a frame, at any time after its answer
ServerSend ==
    \E f \in ConnectFrames :
        /\ Open
        /\ stream.response # <<>>
        /\ Len(StreamBytes(sent)) + Len(WireBytes(f)) <= MaxConnectBytes
        /\ wire' = wire \o WireBytes(f)
        /\ sent' = Append(sent, f)
        /\ UNCHANGED <<interrupted_message, use_mask, src, dst, encoded, out, last,
                       call, client_vars, build_vars>>

\* the server closes the connection
ServerClose ==
    /\ Open
    /\ stream' = [stream EXCEPT !.closed = TRUE]
    /\ UNCHANGED <<interrupted_message, use_mask, src, dst, wire, sent, encoded, out,
                   last, call, builder, framed, future, build_vars>>

\* the Framed reads from the stream into its read buffer
Read ==
    /\ framed \in {"UpgradeCodec", "MessageCodec"}
    /\ Recv

\* async_connect_on, from the response on. The UpgradeCodec has decoded the
\* head of the response: when it is accepted the codec is replaced by
\* MessageCodec::client(), otherwise the connection fails. Or the stream has
\* ended before the response was whole, or reading from it fails. The builder
\* is dropped
Upgrade ==
    LET r == upgrade_decode(src)
        parts == replace_codec(Parts(stream.inner, "UpgradeCodec", r.src, dst), client)
    IN  /\ framed = "UpgradeCodec"
        /\ \/ /\ r.result.kind = "Some"
              /\ framed' = "MessageCodec"
              /\ future' = Future(future.fn, "done")
              /\ interrupted_message' = parts.codec.interrupted_message
              /\ use_mask' = parts.codec.use_mask
              /\ src' = parts.read_buf
              /\ dst' = parts.write_buf
              /\ builder' = None
              /\ last' = Did("upgrade", r.result, None, src, 0)
              /\ UNCHANGED <<wire, sent, encoded, out, call, stream, build_vars>>
           \/ /\ r.result.kind = "Err"
              /\ framed' = "failed"
              /\ future' = Future(future.fn, "failed")
              /\ src' = r.src
              /\ builder' = None
              /\ last' = Did("upgrade", r.result, None, src, 0)
              /\ UNCHANGED <<interrupted_message, use_mask, dst, wire, sent, encoded,
                             out, call, stream, build_vars>>
           \/ /\ r.result = OkNone
              /\ stream.closed /\ wire = <<>>
              /\ ConnectFails(future.fn,
                              IF src = <<>> THEN "no HTTP Upgrade response"
                              ELSE "bytes remaining on stream")
           \/ ConnectFails(future.fn, "read")

\* the client polls the connection: one call of decode of the MessageCodec
Receive ==
    /\ framed = "MessageCodec"
    /\ Decode

----------------------------------------------------------------------------
(* Specifications *)

InitCodec(codec) ==
    /\ interrupted_message = codec.interrupted_message
    /\ use_mask = codec.use_mask
    /\ src = <<>>
    /\ dst = <<>>
    /\ wire = <<>>
    /\ sent = <<>>
    /\ encoded = <<>>
    /\ out = <<>>
    /\ last = Idle("init")
    /\ call = NoCall
    /\ builder = None
    /\ stream = NoStream
    /\ framed = "MessageCodec"
    /\ future = NoFuture

\* a client's codec reading what a peer sends
Init == InitCodec(client) /\ usize_bits = 64 /\ overflow_checks = TRUE

Next == PeerSendShort \/ Recv \/ Decode

Spec == Init /\ [][Next]_vars

\* the same, with a long control frame among the frames
NextLong == PeerSendLong \/ Recv \/ Decode

SpecLong == Init /\ [][NextLong]_vars

\* a client's codec, on a host of 32 or of 64 bits, built with overflow
\* checks (cargo's debug profile) or without them (its release profile),
\* reading frames that advertise huge lengths
InitHuge ==
    InitCodec(client) /\ usize_bits \in {32, 64} /\ overflow_checks \in BOOLEAN

\* a call of decode; one that has failed is not repeated on the same buffer
DecodeNext ==
    /\ ~(last.op = "decode" /\ last.result.kind \in {"Err", "Panic"})
    /\ Decode

NextHuge == PeerSendLead \/ PeerSendHuge \/ Recv \/ DecodeNext

SpecHuge == InitHuge /\ [][NextHuge]_vars

\* a codec that encodes, masking or not, and a new codec that decodes the bytes
InitEnc ==
    /\ \E m \in BOOLEAN : InitCodec(with_masked_encode(m))
    /\ usize_bits = 64 /\ overflow_checks = TRUE

NextEnc == Encode \/ Loopback \/ Decode

SpecEnc == InitEnc /\ [][NextEnc]_vars

\* an application that builds one message, encodes it, and a new codec that
\* decodes the bytes
NextMsg == New \/ CloseWithReason \/ EncodeCalled \/ Loopback \/ Decode

SpecMsg == InitEnc /\ [][NextMsg]_vars

\* a ClientBuilder for a URL; no codec is in use before the handshake
InitConnect ==
    /\ builder \in {Some(from_url(url)) : url \in Urls}
    /\ stream = NoStream
    /\ framed = "-"
    /\ future = NoFuture
    /\ interrupted_message = None
    /\ use_mask = FALSE
    /\ src = <<>>
    /\ dst = <<>>
    /\ wire = <<>>
    /\ sent = <<>>
    /\ encoded = <<>>
    /\ out = <<>>
    /\ last = Idle("init")
    /\ call = NoCall
    /\ usize_bits = 64
    /\ overflow_checks = TRUE

\* a client that connects to a server, which answers and sends frames
NextConnect ==
    \/ SetAsyncConnector \/ AddHeader
    \/ AsyncConnectInsecure \/ AsyncConnect \/ AsyncConnectOn
    \/ TcpConnected \/ TlsWrapped \/ Write
    \/ ServerRespond \/ ServerSend \/ ServerClose \/ Read \/ Upgrade \/ Receive

SpecConnect == InitConnect /\ [][NextConnect]_vars

----------------------------------------------------------------------------
(* What the history says of a call of decode *)

\* the number of frames that make up the first n bytes the peer has sent
FramesIn(n) == CHOOSE k \in 0..Len(sent) : Len(StreamBytes(Take(sent, k))) = n

\* the frames decode has taken out of the buffer, now and before the last call
ConsumedNow == FramesIn(Len(Received) - Len(src))
ConsumedBefore == FramesIn(Len(Received) - Len(last.src0))

Decoded == last.op = "decode"

\* the last call of decode took at least one frame out of the buffer
Took == Decoded /\ ConsumedNow > ConsumedBefore

\* the last frame the last call took
LastFrame == sent[ConsumedNow]

\* a fragmented message was pending when the last call came to LastFrame:
\* the codec held one, or the call had taken a fragment before
PendingAtLast == IF ConsumedNow = ConsumedBefore + 1 THEN last.im0.some ELSE TRUE

IsControlFrame(f) == f.opcode \in {8, 9, 10}
IsDataFrame(f) == f.opcode \in {1, 2}
IsContinuation(f) == f.opcode = 0

\* the Message a whole frame carries
FrameMessage(f) == Msg(OpcodeTryFrom(f.opcode).value, f.payload)

Utf8Text(d) == from_utf8(d)
ClosePayload(d) == Len(d) = 0 \/ (Len(d) >= 2 /\ from_utf8(Drop(d, 2)))

\* the payload suits the opcode
SoundPayload(opcode, d) ==
    /\ opcode = "Text" => Utf8Text(d)
    /\ opcode = "Close" => ClosePayload(d)

----------------------------------------------------------------------------
(* Claims on encode, under SpecEnc *)

Encoded == last.op = "encode"

\* the message of the last call of encode
LastItem == encoded[Len(encoded)].item

\* a call of decode on a buffer that holds the frame of the one message encoded
DecodedOneEncoded == Decoded /\ Len(encoded) = 1 /\ last.src0 # <<>>

\* C1: a message built by a public constructor and encoded into an empty
\* buffer, with or without a mask, is decoded by a new codec as Ok(Some(m))
\* with the same opcode and payload, and the buffer is left empty
C1_RoundTrip ==
    DecodedOneEncoded =>
        /\ last.result = OkSome(encoded[1].item)
        /\ src = <<>>

\* C9: encode returns the ControlTooLong error for a control message of more
\* than 125 bytes and appends nothing to the buffer
C9_EncodeRejectsLongControl ==
    (Encoded /\ is_control(LastItem.opcode) /\ Len(LastItem.data) > 125) =>
        /\ last.result = Error("ControlTooLong")
        /\ dst = last.src0

\* the bytes the last call of encode has appended
Appended == Drop(dst, Len(last.src0))

\* C10: a call of encode leaves the bytes of the buffer as they are and appends
\* one frame: fin set, no reserved bit, the opcode and the payload length of
\* the message, then the whole payload; the frame has a mask key, and the
\* payload is XOR-ed with it byte by byte, exactly when use_mask is true
C10_EncodeOneFrame ==
    Encoded =>
        LET p == parse_slice(Appended)
            hd == p.value.header
            body == Drop(Appended, p.value.header_len)
        IN  /\ last.result = OkNone
            /\ Take(dst, Len(last.src0)) = last.src0
            /\ p.some
            /\ hd.fin /\ hd.rsv = 0
            /\ hd.opcode = OpcodeToU8(LastItem.opcode)
            /\ hd.data_len = Len(LastItem.data)
            /\ Len(body) = Len(LastItem.data)
            /\ hd.mask.some <=> use_mask
            /\ \A i \in 1..Len(body) :
                   body[i] = IF use_mask
                             THEN BitXor(LastItem.data[i], hd.mask.value[((i - 1) % 4) + 1])
                             ELSE LastItem.data[i]

\* a masked frame with a payload is appended to a buffer that holds a frame
C10_Witness ==
    /\ Encoded /\ use_mask
    /\ last.src0 # <<>>
    /\ Len(LastItem.data) = 126
    /\ encoded[Len(encoded)].mask = Some(<<55, 250, 33, 61>>)

----------------------------------------------------------------------------
(* Claims on decode, under Spec *)

\* what calls of decode return, one after the other until Ok(None), from a
\* codec with the pending state im on a buffer that holds buf
RECURSIVE DecodeAll(_, _)
DecodeAll(im, buf) ==
    LET r == decode(im, buf)
    IN  IF r.result = OkNone THEN <<>>
        ELSE <<r.result>> \o DecodeAll(r.interrupted_message, r.src)

\* decode has been called until it returned Ok(None) on all the bytes read
Quiescent == Decoded /\ last.result = OkNone

\* C2: however the stream is cut into chunks and whenever decode is called
\* between them, once decode has returned Ok(None) on all the bytes read it
\* has returned what it returns on a buffer that holds these bytes at once
C2_ChunkIndependence ==
    Quiescent => out = DecodeAll(client.interrupted_message, Received)

\* decode was called on a buffer that ended inside a continuation frame while
\* a fragment was pending, after a control frame between the two was returned
C2_Witness ==
    /\ Quiescent
    /\ src = <<128>> /\ Len(last.src0) < Len(Received)
    /\ interrupted_message = Some(Msg("Text", <<195>>))
    /\ out = <<OkSome(Msg("Ping", <<>>))>>

\* the frames decode has taken out of the buffer
Taken == Take(sent, ConsumedNow)

\* a sound control frame: final, no reserved bit, a payload its opcode allows
SoundControl(f) ==
    /\ IsControlFrame(f) /\ f.fin /\ f.rsv = 0
    /\ Len(f.payload) <= 125
    /\ SoundPayload(OpcodeTryFrom(f.opcode).value, f.payload)

\* frames P are the first fragment of a data message, then sound control
\* frames and continuations, of which only the last of P may be final
Interleaving(P) ==
    /\ Len(P) >= 1
    /\ IsDataFrame(P[1]) /\ ~P[1].fin /\ P[1].rsv = 0
    /\ \A i \in 2..Len(P) :
           \/ SoundControl(P[i])
           \/ /\ IsContinuation(P[i]) /\ P[i].rsv = 0
              /\ P[i].fin => i = Len(P)

Completed(P) == IsContinuation(P[Len(P)]) /\ P[Len(P)].fin

\* the payloads of the fragments among P, in wire order
RECURSIVE Gather(_)
Gather(P) ==
    IF P = <<>> THEN <<>>
    ELSE Gather(Take(P, Len(P) - 1))
         \o (IF IsControlFrame(P[Len(P)]) THEN <<>> ELSE P[Len(P)].payload)

\* the control frames among P as messages, in wire order
RECURSIVE Controls(_)
Controls(P) ==
    IF P = <<>> THEN <<>>
    ELSE Controls(Take(P, Len(P) - 1))
         \o (IF IsControlFrame(P[Len(P)]) THEN <<OkSome(FrameMessage(P[Len(P)]))>> ELSE <<>>)

\* C3: of a data message sent in fragments with N sound control frames
\* between them, decode returns the N control messages in wire order, and
\* keeps the opcode and the payloads gathered so far pending while it does;
\* then it returns one data message with the first fragment's opcode and the
\* payloads of all fragments in wire order (when that payload suits the opcode)
C3_Interleaving ==
    LET P == Taken
        op == OpcodeTryFrom(P[1].opcode).value
    IN  (Interleaving(P) /\ (Completed(P) => SoundPayload(op, Gather(P)))) =>
            IF Completed(P)
            THEN /\ out = Controls(P) \o <<OkSome(Msg(op, Gather(P)))>>
                 /\ interrupted_message = None
            ELSE /\ out = Controls(P)
                 /\ interrupted_message = Some(Msg(op, Gather(P)))

\* two control frames between the fragments have been returned in wire order
\* with the fragment pending, and then the data message
C3_Witness ==
    /\ Interleaving(Taken) /\ Completed(Taken)
    /\ Len(Taken) = 4
    /\ out = <<OkSome(Msg("Ping", <<>>)), OkSome(Msg("Close", <<>>)), OkSome(Msg("Binary", <<>>))>>

\* C4: a continuation frame that comes while no fragmented message is pending
\* makes decode fail with DanglingContinuation, and a Text or Binary frame
\* that comes while one is pending makes it fail with NestedDataFrame,
\* whether the frame is final or not (frames with no reserved bit set)
C4_ReassemblyErrors ==
    (Took /\ LastFrame.rsv = 0) =>
        /\ (IsContinuation(LastFrame) /\ ~PendingAtLast) =>
               last.result = Error("DanglingContinuation")
        /\ (IsDataFrame(LastFrame) /\ PendingAtLast) =>
               last.result = Error("NestedDataFrame")

\* a final Text frame came while a fragment was pending
C4_Witness ==
    /\ Took /\ PendingAtLast
    /\ LastFrame = Frame(TRUE, 0, 1, None, <<65>>)
    /\ last.result = Error("NestedDataFrame")

\* the opcode and the payload that the last frame of the last call completes,
\* when that call took one frame only
CompletedOpcode ==
    IF IsContinuation(LastFrame) THEN last.im0.value.opcode
    ELSE OpcodeTryFrom(LastFrame.opcode).value

CompletedData ==
    IF IsContinuation(LastFrame) THEN last.im0.value.data \o LastFrame.payload
    ELSE LastFrame.payload

\* C5: every message decode returns has a payload that suits its opcode
\* (Text: UTF-8; Close: empty, or two bytes and UTF-8 text), from one frame or
\* from fragments; frames that complete an unsound payload yield an error
C5_ReturnedAreValid ==
    /\ \A i \in 1..Len(out) :
           out[i].kind = "Some" => SoundPayload(out[i].msg.opcode, out[i].msg.data)
    /\ (/\ Took /\ ConsumedNow = ConsumedBefore + 1
        /\ LastFrame.fin /\ LastFrame.rsv = 0
        /\ IF IsContinuation(LastFrame) THEN last.im0.some
           ELSE OpcodeTryFrom(LastFrame.opcode).some
        /\ ~SoundPayload(CompletedOpcode, CompletedData))
       => last.result.kind = "Err"

\* fragments that make up text that is no UTF-8 have been refused
C5_Witness ==
    /\ Took /\ ConsumedNow = ConsumedBefore + 1
    /\ last.im0 = Some(Msg("Text", <<195>>))
    /\ LastFrame = Frame(TRUE, 0, 0, None, <<>>)
    /\ last.result = Error("InvalidUtf8")

\* C6: once decode has returned an error, no later call returns a message
C6_ErrorsTerminal ==
    \A i, j \in 1..Len(out) :
        (i < j /\ out[i].kind = "Err") => out[j].kind # "Some"

\* a control frame that is not final, of acceptable length, no reserved bit
FragmentedControl(f) ==
    IsControlFrame(f) /\ ~f.fin /\ f.rsv = 0 /\ Len(f.payload) < ControlLimit

\* C7, as claimed: a control frame that is not final makes decode fail with
\* ControlFragmented and leave the pending message as it was
C7_AlwaysControlFragmented ==
    (Took /\ FragmentedControl(LastFrame)) =>
        /\ last.result = Error("ControlFragmented")
        /\ PendingAtLast => interrupted_message.some

\* C7, amended: a control frame that is not final makes decode fail and yields
\* no message: with ControlFragmented when no fragmented message is pending,
\* with NestedDataFrame when one is, and then nothing is pending any more
C7_FragmentedControlFails ==
    (Took /\ FragmentedControl(LastFrame)) =>
        /\ last.result =
               IF PendingAtLast THEN Error("NestedDataFrame")
               ELSE Error("ControlFragmented")
        /\ interrupted_message = None

\* a Ping that is not final came while a fragment was pending
C7_Witness ==
    /\ Took /\ FragmentedControl(LastFrame)
    /\ ConsumedNow = ConsumedBefore + 1 /\ last.im0.some
    /\ last.result = Error("NestedDataFrame")

----------------------------------------------------------------------------
(* Claims on the constructors of Message, under SpecMsg *)

CalledNew == call.fn = "new"

\* C11: Message::new(opcode, data) succeeds exactly when the payload suits
\* the opcode: Text data is UTF-8; Close data is empty, or has two bytes or
\* more of which all after the second are UTF-8 (one byte is refused); Binary
\* data is never refused. The message it returns holds the opcode and the
\* data as they were given, and a call that fails returns no message
C11_NewFitsOpcode ==
    CalledNew =>
        LET opcode == call.args[1]
            data == call.args[2]
            succeeded == call.result.kind = "Some"
        IN  /\ opcode = "Text" => (succeeded <=> Utf8Text(data))
            /\ opcode = "Close" => (succeeded <=> ClosePayload(data))
            /\ opcode = "Binary" => succeeded
            /\ succeeded => call.result = OkSome(Msg(opcode, data))
            /\ ~succeeded => call.result.kind = "Err"

\* a Close payload of one byte has been refused
C11_Witness == call = Called("new", <<"Close", <<65>>>>, Error("InvalidClosePayload"))

\* a control message of more than 125 payload bytes
LongControlMessage(r) ==
    r.kind = "Some" /\ is_control(r.msg.opcode) /\ Len(r.msg.data) >= ControlLimit

\* C12: Message::new fails for a control opcode (Close, Ping, Pong) with data
\* of more than 125 bytes, so that no message built by Message::new or
\* returned by decode is a control message of more than 125 payload bytes
C12_NewEnforcesControlLimit ==
    /\ (CalledNew /\ is_control(call.args[1]) /\ Len(call.args[2]) >= ControlLimit) =>
           call.result.kind = "Err"
    /\ CalledNew => ~LongControlMessage(call.result)
    /\ \A i \in 1..Len(out) : ~LongControlMessage(out[i])

CalledClose == call.fn = "close_with_reason"

\* the length of the longest prefix of the reason that is whole characters
\* and has at most 123 bytes
KeptLen(reason) ==
    LET most == Min(Len(reason), MaxReasonLen)
    IN  CHOOSE k \in 0..most :
            /\ from_utf8(Take(reason, k))
            /\ \A j \in (k + 1)..most : ~from_utf8(Take(reason, j))

\* C13: close_with_reason(code, reason) builds a Close message whose payload
\* is the code in two bytes, big-endian, then the longest prefix of the reason
\* that ends on a character boundary and has at most 123 bytes: the payload
\* never has more than 125 bytes and a reason of at most 123 bytes is kept
\* whole; as_close of the message, and of the message decoded from its
\* encoding, gives that code and those bytes of the reason
C13_CloseWithReason ==
    CalledClose =>
        LET code == call.args[1]
            reason == call.args[2]
            m == call.result.msg
            kept == Take(reason, KeptLen(reason))
            frame == Some([code |-> code, reason |-> kept])
        IN  /\ call.result.kind = "Some"
            /\ m.opcode = "Close"
            /\ m.data = <<code \div 256, code % 256>> \o kept
            /\ Len(m.data) <= 125
            /\ Len(reason) <= 123 => Drop(m.data, 2) = reason
            /\ as_close(m) = frame
            /\ DecodedOneEncoded =>
                   /\ last.result.kind = "Some"
                   /\ as_close(last.result.msg) = frame

\* a reason of 124 bytes that ends in a character of three bytes was cut to
\* 121 bytes, and the message was encoded with a mask and decoded
C13_Witness ==
    /\ CalledClose /\ DecodedOneEncoded /\ use_mask
    /\ call.args = <<4999, Fill(121, 97) \o <<226, 130, 172>>>>
    /\ last.result.kind = "Some"
    /\ Len(last.result.msg.data) = 123

----------------------------------------------------------------------------
(* Claims on the client, under SpecConnect *)

\* the bytes the Framed has read from the stream, and those of them that
\* come after the response
ReadSoFar ==
    LET all == stream.response \o StreamBytes(sent)
    IN  Take(all, Len(all) - Len(wire))

PastResponse == Drop(ReadSoFar, Len(stream.response))

\* the codec has just been replaced
Swapped == last.op = "upgrade" /\ framed = "MessageCodec"

\* C14: when the response is accepted and the UpgradeCodec is replaced by the
\* MessageCodec, the read buffer and the write buffer are kept byte for byte
\* and the MessageCodec has no pending fragment: the bytes read past the
\* response are the first bytes it decodes, and what it returns from then on
\* is what decode returns on all the bytes read past the response, in order
C14_CodecSwapKeepsBuffers ==
    /\ Swapped =>
           /\ src = Drop(last.src0, Len(stream.response))
           /\ src = PastResponse
           /\ dst = <<>>
           /\ interrupted_message = None
    /\ framed = "MessageCodec" =>
           out \o DecodeAll(interrupted_message, src)
               = DecodeAll(client.interrupted_message, PastResponse)

\* the codec was replaced while the buffer held, past the response, the first
\* two bytes of a frame
C14_Witness == Swapped /\ src = <<129, 1>> /\ wire = <<65>>

\* the handshake is under way: the request is written, the response awaited
Handshaking == framed = "UpgradeCodec"

\* C15: for a URL of scheme wss, every connect operation that reaches the
\* handshake performs it over a stream wrapped in TLS, whatever connector was
\* set and whichever connect method was called
C15_WssOverTls ==
    (Handshaking /\ builder.value.url.scheme = "wss") => stream.inner = "NativeTls"

\* the lines of a text, each with the line break that ends it
RECURSIVE Lines(_)
Lines(s) ==
    LET ends == {i \in 1..(Len(s) - 1) : SubSeq(s, i, i + 1) = "\r\n"}
    IN  IF ends = {} THEN IF s = "" THEN <<>> ELSE <<s>>
        ELSE LET e == (CHOOSE i \in ends : \A j \in ends : i <= j) + 1
             IN  <<SubSeq(s, 1, e)>> \o Lines(SubSeq(s, e + 1, Len(s)))

\* the Host line of the request that was written
HostLine == Lines(stream.request)[2]

\* C16: build_request writes "Host: host" with no port when the port of the
\* URL is absent or is 80 for ws or 443 for wss, and "Host: host:port"
\* otherwise
C16_HostPortElided ==
    Handshaking =>
        LET url == builder.value.url
        IN  HostLine =
                IF ~url.port.some \/ url.port = known_default_port(url.scheme)
                THEN "Host: " \o url.host.value \o "\r\n"
                ELSE "Host: " \o url.host.value \o ":" \o Display(url.port.value) \o "\r\n"

----------------------------------------------------------------------------
(* Claims on frames of huge lengths, under SpecHuge *)

\* of a buffer: the length its first two bytes give to the header, whether
\* the header is whole, and the eight bytes of the length it advertises
HeadLen(buf) ==
    2 + (IF buf[2] % 128 = 126 THEN 2 ELSE IF buf[2] % 128 = 127 THEN 8 ELSE 0)
      + (IF buf[2] >= 128 THEN 4 ELSE 0)

HeadWhole(buf) == Len(buf) >= 2 /\ Len(buf) >= HeadLen(buf)

Advertised(buf) ==
    IF buf[2] % 128 = 127 THEN SubSeq(buf, 3, 10)
    ELSE IF buf[2] % 128 = 126 THEN <<0, 0, 0, 0, 0, 0, buf[3], buf[4]>>
    ELSE <<0, 0, 0, 0, 0, 0, 0, buf[2] % 128>>

\* the advertised length fits the usize of the host
FitsUsize(len) == usize_bits = 64 \/ \A i \in 1..4 : len[i] = 0

\* min(frame_len, 1 GiB) + 512 for the frame at the front of the buffer
ExpectedReserve(buf) ==
    LET len == Advertised(buf)
    IN  IF (\E i \in 1..4 : len[i] # 0) \/ len[5] >= 64
        THEN 1073741824 + 512
        ELSE Min(HeadLen(buf) + BEValue(SubSeq(len, 5, 8)), 1073741824) + 512

\* C17: a call of decode that returns Ok(None) has reserved 512 bytes when
\* the header at the front of the buffer is not whole and min(frame_len,
\* 1 GiB) + 512 bytes when the payload is not whole; no call reserves more
\* than 1 GiB + 512 bytes whatever length is advertised; and a length that
\* does not fit the usize of the host makes decode fail with FrameTooLong
\* and reserve nothing
C17_BoundedReserve ==
    Decoded =>
        /\ last.reserved <= 1073741824 + 512
        /\ last.result = OkNone =>
               IF HeadWhole(src)
               THEN /\ last.reserved = ExpectedReserve(src)
                    /\ FitsUsize(Advertised(src))
               ELSE last.reserved = 512
        /\ (HeadWhole(last.src0) /\ ~FitsUsize(Advertised(last.src0))) =>
               /\ last.result = Error("FrameTooLong")
               /\ last.reserved = 0
               /\ src = last.src0

\* after a fragment was taken in the same call, a frame that advertises 2^63
\* bytes had 1 GiB + 512 bytes reserved for it
C17_Witness ==
    /\ Decoded /\ last.result = OkNone
    /\ Len(last.src0) > Len(src) /\ interrupted_message.some
    /\ HeadWhole(src) /\ Advertised(src) = <<128, 0, 0, 0, 0, 0, 0, 0>>
    /\ last.reserved = MaxDataReserve + HeaderReserve

----------------------------------------------------------------------------
(* Claims on the pending state of decode, under Spec *)

\* the frames the last call of decode took out of the buffer
TakenNow == SubSeq(sent, ConsumedBefore + 1, ConsumedNow)

\* a fragment that is not the last of its message
OpenFragment(f) == ~f.fin /\ f.rsv = 0 /\ (IsDataFrame(f) \/ IsContinuation(f))

\* the buffer does not hold a whole frame at its front
NoWholeFrame(buf) ==
    LET p == parse_slice(buf)
    IN  ~p.some \/ Len(buf) < p.value.header_len + p.value.header.data_len

\* C18: a call of decode that returns Ok(None) has taken out of the buffer
\* only whole fragments that are not final; the bytes of the frame that is
\* not whole stay in the buffer as they were; and the codec holds the opcode
\* and the payloads, in order, of all the fragments taken so far, which is
\* what it held before the call when the call took no frame
C18_NeedMoreKeepsTail ==
    Quiescent =>
        /\ \A i \in 1..Len(TakenNow) : OpenFragment(TakenNow[i])
        /\ src = Drop(last.src0, Len(StreamBytes(TakenNow)))
        /\ NoWholeFrame(src)
        /\ interrupted_message =
               IF TakenNow = <<>> THEN last.im0
               ELSE IF last.im0.some
               THEN Some(Msg(last.im0.value.opcode,
                             last.im0.value.data \o Gather(TakenNow)))
               ELSE Some(Msg(OpcodeTryFrom(TakenNow[1].opcode).value, Gather(TakenNow)))

\* one call took two fragments and left the first byte of a third frame
C18_Witness ==
    /\ Quiescent /\ last.im0 = None
    /\ Len(TakenNow) = 2 /\ Len(src) = 1
    /\ interrupted_message = Some(Msg("Text", <<195, 169>>))

\* C19: after a call of decode that returns an error the codec holds no
\* pending fragment, also when the error comes from Message::new for a
\* control frame that came while a fragmented message was pending
C19_ErrorClearsPending ==
    (Decoded /\ last.result.kind = "Err") => interrupted_message = None

\* C20: between calls of decode, a pending message has the opcode Text or
\* Binary, and its payload is that of the data fragments taken since the
\* message started, in wire order, with no byte of a control frame that came
\* between them
C20_PendingIsDataFragments ==
    interrupted_message.some =>
        /\ interrupted_message.value.opcode \in {"Text", "Binary"}
        /\ \E first \in 1..ConsumedNow :
               LET P == SubSeq(sent, first, ConsumedNow)
               IN  /\ IsDataFrame(P[1]) /\ OpenFragment(P[1])
                   /\ \A i \in 2..Len(P) :
                          \/ IsContinuation(P[i]) /\ OpenFragment(P[i])
                          \/ IsControlFrame(P[i]) /\ P[i].fin
                   /\ interrupted_message.value =
                          Msg(OpcodeTryFrom(P[1].opcode).value, Gather(P))

\* a Pong with a payload came between two fragments that are pending
C20_Witness ==
    /\ interrupted_message = Some(Msg("Binary", <<169>>))
    /\ ConsumedNow = 3
    /\ sent[2] = Frame(TRUE, 0, 10, None, <<65>>)

----------------------------------------------------------------------------
(* Claims on the loop of decode, under SpecHuge *)

\* the iterations the loop of decode runs from a pending state on a buffer,
\* the bytes it takes out of the buffer, and where in the buffer its last
\* iteration began: an iteration that finds a whole frame and does not return
\* takes the frame and goes on with the rest
RECURSIVE Walk(_, _)
Walk(state, buf) ==
    LET p == parse_slice(buf)
        fit == frame_fit(p.value.header, p.value.header_len, Len(buf))
        one == decode_loop(state, Take(buf, fit.frame_len))
        more == Walk(one.interrupted_message, Drop(buf, fit.frame_len))
    IN  IF ~p.some \/ fit.kind # "Whole"
        THEN [iterations |-> 1, taken |-> 0, at |-> 0]
        ELSE IF p.value.header_len > fit.frame_len
        THEN [iterations |-> 1, taken |-> fit.frame_len, at |-> 0]
        ELSE IF one.result = OkNone
        THEN [iterations |-> 1 + more.iterations,
              taken |-> fit.frame_len + more.taken,
              at |-> fit.frame_len + more.at]
        ELSE [iterations |-> 1, taken |-> fit.frame_len, at |-> 0]

\* C21: every call of decode returns, with a message, Ok(None) or an error:
\* an iteration of its loop that does not return takes a whole frame of two
\* bytes or more out of the buffer, so that a call on n bytes runs at most
\* n/2 + 1 iterations; and the bytes after the last frame the call took are
\* left in the buffer for the next call
C21_DecodeReturns ==
    Decoded =>
        LET w == Walk(last.im0, last.src0)
        IN  /\ last.result.kind \in {"Some", "None", "Err"}
            /\ w.iterations <= (Len(last.src0) \div 2) + 1
            /\ src = Drop(last.src0, w.taken)

----------------------------------------------------------------------------
(* Claims on long control frames, under SpecHuge *)

\* the buffer the last iteration of the last call of decode began with
Stopped == Drop(last.src0, Walk(last.im0, last.src0).at)

\* the last call of decode came to a control frame, no reserved bit set,
\* whose header advertises a payload of 126 bytes or more
CameToLongControl ==
    /\ Decoded
    /\ LET p == parse_slice(Stopped)
       IN  /\ p.some
           /\ p.value.header.opcode \in {8, 9, 10}
           /\ p.value.header.rsv = 0
           /\ (p.value.header.wide \/ p.value.header.data_len >= ControlLimit)

\* C8, read in favour of the code: a call of decode that comes to a control
\* frame whose header advertises 126 bytes or more yields no message and
\* fails; with ControlTooLong once the whole frame is in the buffer, taking
\* the bytes up to the end of that frame and no more; before that it takes
\* nothing of the frame, and either waits for it with Ok(None) or refuses its
\* length with FrameTooLong
C8_LongControlRefused ==
    CameToLongControl =>
        LET p == parse_slice(Stopped).value
            whole == /\ ~p.header.wide
                     /\ Len(Stopped) >= p.header_len + p.header.data_len
        IN  IF whole
            THEN /\ last.result = Error("ControlTooLong")
                 /\ src = Drop(Stopped, p.header_len + p.header.data_len)
            ELSE /\ last.result \in {OkNone, Error("FrameTooLong")}
                 /\ src = Stopped

====
